---- MODULE Spec2Model ----
(***************************************************************************)
(* express-mini: a 2 channel analog expression controller.                 *)
(*                                                                         *)
(* The model follows src/express-mini.ino: the Device object (potentio-    *)
(* meter sampling, control-change emission, note-driven LEDs), the MIDI    *)
(* object (packets from the USB host) and the Link object (packets from    *)
(* the plug = upstream port and the socket = downstream port).             *)
(*                                                                         *)
(* Time.  micros() is an unsigned long.  The model counts time in units of *)
(* 10 ms (so 10 * 1000 us is 1 unit and 50 * 1000 us is 5 units) and keeps *)
(* the clock ClockBits wide, so that the unsigned subtraction wraps the    *)
(* way the 32 bit one does.                                                *)
(*                                                                         *)
(* Libraries.  V2Potentiometer, V2LED, V2MIDI, V2Link and V2Device are     *)
(* libraries outside this repository.  Their calls are modelled by their   *)
(* contract: measure() leaves the sampler at some step (any step of the    *)
(* range), send() on a port is recorded in `sent`, dispatch() calls the    *)
(* handler the packet's type names.                                        *)
(***************************************************************************)
EXTENDS Integers, Sequences, FiniteSets, TLC

n_potis == 2

\* Width of the clock in bits.
ClockBits == 4
ClockMod == 2 ^ ClockBits

\* The sampler's steps are 0..MaxStep (n_steps is 128 in the source).
MaxStep == 1
Steps == 0 .. MaxStep

\* loop() runs again before the reference of a task is older than
\* EventsPeriod + MaxLate units of time.
MaxLate == 5

\* SpecEmit follows the device for the first EmitHorizon units of time.
EmitHorizon == 7

\* importConfiguration is tried with the channels 0 .. MaxChannel.
MaxChannel == 20

\* The time that may pass between two reads of micros() inside handleLoop.
Skew == {0, 1}

\* 10 * 1000 us and 50 * 1000 us, in units of 10 ms.
MeasurePeriod == 1
EventsPeriod == 5

\* V2MIDI::C(3), V2MIDI::CC::GeneralPurpose1, AllSoundOff, AllNotesOff.
BaseNote == 60
GeneralPurpose1 == 16
AllSoundOff == 120
AllNotesOff == 123
\* A controller that Device::handleControlChange does not react to.
OtherController == GeneralPurpose1

\* The ports of USB MIDI (cable numbers) are 0 .. PortMod-1.
PortMod == 16

\* The reserved address of V2Link.
BroadcastAddress == 15

Channels == 0 .. (n_potis - 1)

VARIABLES
  now,              \* micros()
  potis,            \* _potis[i].getStep()
  _steps,           \* Device::_steps
  _measure_usec,    \* Device::_measure_usec
  _events_usec,     \* Device::_events_usec
  _midi,            \* Device::_midi
  channel,          \* Device::config.channel
  led,              \* LED: brightness of pixel i, in 127ths
  onboard,          \* PIN_LED_ONBOARD
  connected,        \* Device.usb.midi.connected()
  MIDI_midi,        \* MIDI::_midi
  Link_midi,        \* Link::_midi
  sinceMeasure,     \* time since _measure_usec was set (not wrapped)
  sinceEvents,      \* time since _events_usec was set (not wrapped)
  lastMeasure,      \* time since the sampling task fired last (saturating)
  lastEvents,       \* time since the emission task fired last (saturating)
  lastNote,         \* the last note for an LED since the reset: on or off
  sent,             \* the packets sent by the last step, in order
  ev                \* the last step: operation, input, what it did

vars == << now, potis, _steps, _measure_usec, _events_usec, _midi, channel,
           led, onboard, connected, MIDI_midi, Link_midi,
           sinceMeasure, sinceEvents, lastMeasure, lastEvents, lastNote,
           sent, ev >>

----------------------------------------------------------------------------
(* Packets *)

\* V2MIDI::Packet{}
NoPacket == [type |-> "None", port |-> 0, channel |-> 0, d1 |-> 0, d2 |-> 0]

\* V2MIDI::Packet::setControlChange keeps the packet's port.
setControlChange(p, ch, controller, value) ==
  [type |-> "ControlChange", port |-> p.port, channel |-> ch,
   d1 |-> controller, d2 |-> value]

\* V2MIDI::Packet::setPort: the port is the 4 bit cable number of the packet.
setPort(p, port) == [p EXCEPT !.port = port % PortMod]

Min(a, b) == IF a < b THEN a ELSE b

\* "Never fired", and the value the since-last-fire counters saturate at.
Never == ClockMod

\* What a step of the model passes through the Device's methods: the fields
\* the methods read and write, and `out`, the packets they send.
DeviceState ==
  [steps |-> _steps, potis |-> potis, led |-> led, onboard |-> onboard,
   measure_usec |-> _measure_usec, events_usec |-> _events_usec,
   midi |-> _midi, channel |-> channel,
   sinceMeasure |-> sinceMeasure, sinceEvents |-> sinceEvents,
   out |-> << >>]

----------------------------------------------------------------------------
(* Device *)

\* handleSend that sends to the USB host only when it is connected.
handleSend_connected(pkt) ==
  IF connected
  THEN << [to |-> "usb", pkt |-> pkt], [to |-> "plug", pkt |-> pkt] >>
  ELSE << [to |-> "plug", pkt |-> pkt] >>

\* Device::handleSend: the packet goes to the USB host and to the plug.
handleSend(pkt) ==
  << [to |-> "usb", pkt |-> pkt], [to |-> "plug", pkt |-> pkt] >>

\* sendEvents that sends only when it is forced.
unchanged_unlessForced(force, cached, step) == ~force

\* sendEvents without the comparison with the cached step.
unchanged_never(force, cached, step) == FALSE

\* The test of sendEvents that skips channel i.
unchanged(force, cached, step) == ~force /\ cached = step

\* sendEvents that caches the step after the one it has sent.
cachedStep_next(step) == (step + 1) % (MaxStep + 1)

\* The value sendEvents caches for a channel it has sent.
cachedStep(step) == step

\* Device::sendEvents, channels i .. n_potis-1.
RECURSIVE sendEventsFrom(_, _, _)
sendEventsFrom(d, force, i) ==
  IF i >= n_potis THEN d
  ELSE IF unchanged(force, d.steps[i], d.potis[i])
       THEN sendEventsFrom(d, force, i + 1)
       ELSE LET pkt == setControlChange(d.midi, d.channel,
                                        GeneralPurpose1 + i, d.potis[i])
            IN  sendEventsFrom([d EXCEPT !.led[i] = d.potis[i],
                                         !.midi = pkt,
                                         !.out = @ \o handleSend(pkt),
                                         !.steps[i] = cachedStep(d.potis[i])],
                               force, i + 1)

\* sendEvents that does not write _steps.
sendEvents_noCache(d, force) ==
  [sendEventsFrom(d, force, 0) EXCEPT !.steps = d.steps]

sendEvents(d, force) == sendEventsFrom(d, force, 0)

\* allNotesOff without the force flag.
allNotesOff_unforced(d) == sendEvents(d, FALSE)

allNotesOff(d) == sendEvents(d, TRUE)

\* play that writes the onboard LED before it looks at the note.
play_statusFirst(d, note, velocity) ==
  LET e == [d EXCEPT !.onboard = velocity > 0]
  IN  IF note < BaseNote THEN e
      ELSE IF note - BaseNote >= n_potis THEN e
      ELSE [e EXCEPT !.led[note - BaseNote] = velocity]

\* play that turns every LED off with velocity 0.
play_allOff(d, note, velocity) ==
  IF note < BaseNote THEN d
  ELSE IF note - BaseNote >= n_potis THEN d
  ELSE IF velocity > 0
       THEN [d EXCEPT !.onboard = TRUE, !.led[note - BaseNote] = velocity]
       ELSE [d EXCEPT !.onboard = FALSE, !.led = [i \in Channels |-> 0]]

\* Device::play, with the note and the velocity of a MIDI packet (0..127).
play(d, note, velocity) ==
  IF note < BaseNote THEN d
  ELSE IF note - BaseNote >= n_potis THEN d
  ELSE IF velocity > 0
       THEN [d EXCEPT !.onboard = TRUE, !.led[note - BaseNote] = velocity]
       ELSE [d EXCEPT !.onboard = FALSE, !.led[note - BaseNote] = 0]

\* handleReset without the memset of _steps.
handleReset_keepsSteps(d, t) ==
  [d EXCEPT !.onboard = FALSE,
            !.led = [i \in Channels |-> 0],
            !.potis = [i \in Channels |-> 0],
            !.measure_usec = 0,
            !.events_usec = t,
            !.midi = NoPacket,
            !.sinceMeasure = t,
            !.sinceEvents = 0]

\* Device::handleReset at time t.
handleReset(d, t) ==
  [d EXCEPT !.onboard = FALSE,
            !.led = [i \in Channels |-> 0],
            !.potis = [i \in Channels |-> 0],
            !.steps = [i \in Channels |-> 0],
            !.measure_usec = 0,
            !.events_usec = t,
            !.midi = NoPacket,
            !.sinceMeasure = t,
            !.sinceEvents = 0]

handleNote(d, note, velocity) == play(d, note, velocity)

\* handleNoteOff that plays the velocity of the note off.
handleNoteOff_velocity(d, note, velocity) == play(d, note, velocity)

handleNoteOff(d, note, velocity) == play(d, note, 0)

handleControlChange(d, controller, value) ==
  IF controller = AllSoundOff \/ controller = AllNotesOff
  THEN allNotesOff(d)
  ELSE d

handleSystemReset(d, t) == handleReset(d, t)

\* Device.dispatch: the handler of the packet's type.
dispatch(d, pkt, t) ==
  CASE pkt.type = "NoteOn" -> handleNote(d, pkt.d1, pkt.d2)
    [] pkt.type = "NoteOff" -> handleNoteOff(d, pkt.d1, pkt.d2)
    [] pkt.type = "ControlChange" -> handleControlChange(d, pkt.d1, pkt.d2)
    [] pkt.type = "SystemReset" -> handleSystemReset(d, t)
    [] OTHER -> d

\* The subtraction without the wrap of the unsigned type.
Elapsed_signed(t, last) == t - last

\* The unsigned subtraction micros() - last.
Elapsed(t, last) == (t - last) % ClockMod

\* The time from clock value a to clock value b.
Passed(a, b) == (b - a) % ClockMod

\* The test with >= in place of >.
Due_atPeriod(t, last, period) == Elapsed(t, last) >= period

\* The test of a periodic task in handleLoop.
Due(t, last, period) == Elapsed(t, last) > period

\* A reference that advances by one period from the last one.
Reference_catchUp(t, last, period) == (last + period) % ClockMod

\* The reference a task records when it has fired at time t.
Reference(t, last, period) == t

----------------------------------------------------------------------------
(* Inputs *)

Message(type, d1, d2) ==
  [type |-> type, port |-> 0, channel |-> 0, d1 |-> d1, d2 |-> d2]

\* The control messages: the two that flush, one that does not, the reset.
ControlMessages ==
  { Message("ControlChange", c, 0) :
      c \in {AllSoundOff, AllNotesOff, OtherController} }
  \cup { Message("SystemReset", 0, 0) }

\* Notes below, inside and above the range of the LEDs.
NoteMessages ==
  { Message("NoteOn", n, v) :
      n \in (BaseNote - 1) .. (BaseNote + n_potis), v \in {0, 64} }
  \cup { Message("NoteOff", n, 64) :
           n \in (BaseNote - 1) .. (BaseNote + n_potis) }

\* The ports of a packet from the USB host and the addresses of a packet
\* from the socket that the model tries.
Ports == {0, 1, 2, BroadcastAddress}
Addresses == {0, 1, BroadcastAddress - 1, BroadcastAddress}

\* A V2Link::Packet: its type, its address, the MIDI packet it carries.
LinkPacket(ltype, address, midi) ==
  [ltype |-> ltype, address |-> address, midi |-> midi]

\* The JSON object given to importConfiguration: whether it has a "midi"
\* object, whether that has a "channel", and the channel as the uint8_t it
\* is converted to.
Json(json_midi, hasChannel, value) ==
  [ltype |-> "JSON", address |-> 0, midi |-> NoPacket,
   json_midi |-> json_midi, hasChannel |-> hasChannel, channel |-> value]

\* The channels tried: 0 .. MaxChannel and the largest uint8_t.
ChannelValues == (0 .. MaxChannel) \cup {2 ^ 8 - 1}

JsonInputs ==
  { Json(FALSE, FALSE, 0), Json(TRUE, FALSE, 0) }
  \cup { Json(TRUE, TRUE, v) : v \in ChannelValues }

\* The notes with an LED.
LedNotes == BaseNote .. (BaseNote + n_potis - 1)

\* What the Device has been told last about its LEDs, after packet pkt is
\* dispatched: "on" by a note on with a velocity, "off" by a note off or a
\* note on with velocity 0, "none" since the system reset.
noteFor(pkt, last) ==
  IF pkt.type = "SystemReset" THEN "none"
  ELSE IF pkt.type \in {"NoteOn", "NoteOff"} /\ pkt.d1 \in LedNotes
       THEN IF pkt.type = "NoteOn" /\ pkt.d2 > 0 THEN "on" ELSE "off"
       ELSE last

\* No input.
NoInput == LinkPacket("None", 0, NoPacket)

\* What handleLoop did: whether the sampling task (m) and the emission task
\* (e) fired, whether at its test the task had fired before and more than
\* two periods ago (it is overdue by more than one period), whether micros()
\* was below the task's reference then, and the time that passed between the
\* reads of micros() at line 83 and at line 90.
NoLoop ==
  [mFired |-> FALSE, mLate |-> FALSE, mWrapped |-> FALSE,
   eFired |-> FALSE, eLate |-> FALSE, eWrapped |-> FALSE, eSkew |-> 0]

\* The last step: the operation, its input, whether the USB host was
\* connected, the number of calls of Device.dispatch, and what handleLoop did.
Event(op, inp, dispatched, loop) ==
  [op |-> op, inp |-> inp, conn |-> connected, dispatched |-> dispatched,
   loop |-> loop]

----------------------------------------------------------------------------
(* Steps *)

\* The Device's fields after its methods have run.
Commit(d) ==
  /\ _steps' = d.steps
  /\ potis' = d.potis
  /\ led' = d.led
  /\ onboard' = d.onboard
  /\ _measure_usec' = d.measure_usec
  /\ _events_usec' = d.events_usec
  /\ _midi' = d.midi
  /\ channel' = d.channel
  /\ sinceMeasure' = d.sinceMeasure
  /\ sinceEvents' = d.sinceEvents

Init ==
  /\ now \in {0, 1}
  /\ potis = [i \in Channels |-> 0]
  /\ _steps = [i \in Channels |-> 0]
  /\ _measure_usec = 0
  /\ _events_usec = now
  /\ _midi = NoPacket
  /\ channel = 0
  /\ led = [i \in Channels |-> 0]
  /\ onboard = FALSE
  /\ connected = FALSE
  /\ MIDI_midi = NoPacket
  /\ Link_midi = NoPacket
  /\ sinceMeasure = now
  /\ sinceEvents = 0
  /\ lastMeasure = Never
  /\ lastEvents = Never
  /\ lastNote = "none"
  /\ sent = << >>
  /\ ev = Event("setup", NoInput, 0, NoLoop)

\* Time passes between two iterations of loop(), while the clock is below
\* `limit`.
Tick(limit) ==
  /\ now < limit
  /\ sinceMeasure <= EventsPeriod + MaxLate
  /\ sinceEvents <= EventsPeriod + MaxLate
  /\ now' = (now + 1) % ClockMod
  /\ sinceMeasure' = sinceMeasure + 1
  /\ sinceEvents' = sinceEvents + 1
  /\ lastMeasure' = Min(lastMeasure + 1, Never)
  /\ lastEvents' = Min(lastEvents + 1, Never)
  /\ sent' = << >>
  /\ ev' = Event("tick", NoInput, 0, NoLoop)
  /\ UNCHANGED << potis, _steps, _measure_usec, _events_usec, _midi, channel,
                  led, onboard, connected, MIDI_midi, Link_midi, lastNote >>

\* The USB host opens or closes the MIDI port.
Connect ==
  /\ connected' = ~connected
  /\ sent' = << >>
  /\ ev' = [Event("connect", NoInput, 0, NoLoop) EXCEPT !.conn = ~connected]
  /\ UNCHANGED << now, potis, _steps, _measure_usec, _events_usec, _midi,
                  channel, led, onboard, MIDI_midi, Link_midi,
                  sinceMeasure, sinceEvents, lastMeasure, lastEvents,
                  lastNote >>

\* Device::handleLoop.  micros() is read at line 83 (now), at line 87 (d1
\* later, when the sampling task fires), at line 90 (d2 later) and at line 92
\* (d3 later, when the emission task fires), the d in Skews; m, in Samples,
\* is where the samplers are after measure().
HandleLoop(Skews, Samples) ==
  \E d1, d2, d3 \in Skews, m \in Samples \cup {potis} :
    LET t1 == now
        mDue == Due(t1, _measure_usec, MeasurePeriod)
        t2 == IF mDue THEN (t1 + d1) % ClockMod ELSE t1
        measure_usec == IF mDue THEN Reference(t2, _measure_usec, MeasurePeriod)
                        ELSE _measure_usec
        t3 == (t2 + d2) % ClockMod
        eDue == Due(t3, _events_usec, EventsPeriod)
        t4 == IF eDue THEN (t3 + d3) % ClockMod ELSE t3
        events_usec == IF eDue THEN Reference(t4, _events_usec, EventsPeriod)
                       ELSE _events_usec
        d0 == [DeviceState EXCEPT !.potis = IF mDue THEN m ELSE @]
        d == IF eDue THEN sendEvents(d0, FALSE) ELSE d0
        loop == [mFired |-> mDue,
                 mLate |-> /\ lastMeasure < Never
                           /\ lastMeasure > 2 * MeasurePeriod,
                 mWrapped |-> t1 < _measure_usec,
                 eFired |-> eDue,
                 eLate |-> /\ lastEvents + Passed(t1, t3) < Never
                           /\ lastEvents + Passed(t1, t3) > 2 * EventsPeriod,
                 eWrapped |-> t3 < _events_usec,
                 eSkew |-> Passed(t1, t3)]
    IN  /\ IF mDue THEN m \in Samples ELSE d1 = 0 /\ m = potis
        /\ eDue \/ d3 = 0
        /\ Commit([d EXCEPT
             !.measure_usec = measure_usec,
             !.events_usec = events_usec,
             !.sinceMeasure = IF mDue THEN Passed(t2, t4)
                              ELSE sinceMeasure + Passed(t1, t4),
             !.sinceEvents = IF eDue THEN 0
                             ELSE sinceEvents + Passed(t1, t4)])
        /\ now' = t4
        /\ lastMeasure' = IF mDue THEN Passed(t2, t4)
                          ELSE Min(lastMeasure + Passed(t1, t4), Never)
        /\ lastEvents' = IF eDue THEN 0
                         ELSE Min(lastEvents + Passed(t1, t4), Never)
        /\ sent' = d.out
        /\ ev' = Event("loop", NoInput, 0, loop)
        /\ UNCHANGED << connected, MIDI_midi, Link_midi, lastNote >>

\* importConfiguration without the upper bound.
importChannel_noUpper(value) ==
  IF value < 1 THEN 0 ELSE value - 1

\* Device::importConfiguration: config.channel for the channel of the JSON.
importChannel(value) ==
  IF value < 1 THEN 0
  ELSE IF value > 16 THEN 15
  ELSE value - 1

\* Device::importConfiguration.
ImportConfiguration(json) ==
  /\ Commit([DeviceState EXCEPT
       !.channel = IF json.json_midi /\ json.hasChannel
                   THEN importChannel(json.channel)
                   ELSE @])
  /\ sent' = << >>
  /\ ev' = Event("import", json, 0, NoLoop)
  /\ UNCHANGED << now, connected, MIDI_midi, Link_midi,
                  lastMeasure, lastEvents, lastNote >>

\* MIDI::loop that takes no packet for its own.
forMe_never(port) == FALSE

\* MIDI::loop: the packet is for this device.
forMe(port) == port = 0

\* MIDI::loop that forwards the port as it is.
downstreamPort_same(port) == port

\* MIDI::loop: the port of a packet forwarded to the socket.
downstreamPort(port) == port - 1

\* MIDI::loop with a packet from the USB host.
LocalReceive(pkt) ==
  /\ IF forMe(pkt.port)
     THEN LET d == dispatch(DeviceState, pkt, now)
          IN  /\ Commit(d)
              /\ MIDI_midi' = pkt
              /\ sent' = d.out
              /\ ev' = Event("local", LinkPacket("USB", pkt.port, pkt), 1, NoLoop)
              /\ lastNote' = noteFor(pkt, lastNote)
     ELSE LET fwd == setPort(pkt, downstreamPort(pkt.port))
          IN  /\ Commit(DeviceState)
              /\ MIDI_midi' = fwd
              /\ sent' = << [to |-> "socket", pkt |-> fwd] >>
              /\ ev' = Event("local", LinkPacket("USB", pkt.port, pkt), 0, NoLoop)
              /\ lastNote' = lastNote
  /\ UNCHANGED << now, connected, Link_midi, lastMeasure, lastEvents >>

\* Link::receivePlug that takes every packet for a MIDI packet.
carriesMIDI_any(ltype) == TRUE

\* Link::receivePlug: the packet's type is V2Link::Packet::Type::MIDI.
carriesMIDI(ltype) == ltype = "MIDI"

\* Link::receivePlug: a packet from the parent device.
PlugReceive(packet) ==
  /\ IF carriesMIDI(packet.ltype)
     THEN LET d == dispatch(DeviceState, packet.midi, now)
          IN  /\ Commit(d)
              /\ Link_midi' = packet.midi
              /\ sent' = d.out
              /\ ev' = Event("plug", packet, 1, NoLoop)
              /\ lastNote' = noteFor(packet.midi, lastNote)
     ELSE /\ Commit(DeviceState)
          /\ Link_midi' = Link_midi
          /\ sent' = << >>
          /\ ev' = Event("plug", packet, 0, NoLoop)
          /\ lastNote' = lastNote
  /\ UNCHANGED << now, connected, MIDI_midi, lastMeasure, lastEvents >>

\* Link::receiveSocket without the test of the address.
reserved_never(address) == FALSE

\* Link::receiveSocket: the address that is never forwarded.
reserved(address) == address = BroadcastAddress

\* Link::receiveSocket that does not ask whether the host is connected.
usbConnected_always == TRUE

\* Link::receiveSocket: Device.usb.midi.connected().
usbConnected == connected

\* Link::receiveSocket: the port of a packet forwarded to the USB host.
upstreamPort(address) == address + 1

\* Link::receiveSocket: a packet from a child device.
SocketReceive(packet) ==
  /\ IF packet.ltype = "MIDI" /\ ~reserved(packet.address) /\ usbConnected
     THEN LET fwd == setPort(packet.midi, upstreamPort(packet.address))
          IN  /\ Link_midi' = fwd
              /\ sent' = << [to |-> "usb", pkt |-> fwd] >>
     ELSE /\ Link_midi' = Link_midi
          /\ sent' = << >>
  /\ Commit(DeviceState)
  /\ ev' = Event("socket", packet, 0, NoLoop)
  /\ UNCHANGED << now, connected, MIDI_midi, lastMeasure, lastEvents,
                  lastNote >>

UsbPackets ==
  { setPort(m, p) : m \in ControlMessages \cup NoteMessages, p \in Ports }

PlugPackets ==
  { LinkPacket("MIDI", 0, m) : m \in ControlMessages \cup NoteMessages }
  \cup { LinkPacket("Other", 0, NoPacket) }

SocketPackets ==
  { LinkPacket("MIDI", a, m) : a \in Addresses, m \in ControlMessages }
  \cup { LinkPacket("Other", a, NoPacket) : a \in Addresses }

AllSamples == [Channels -> Steps]

\* The first potentiometer turned to its last step, the others at rest.
OneSample == { [i \in Channels |-> IF i = 0 THEN MaxStep ELSE 0] }

\* The analog inputs at rest.
NoSamples == { [i \in Channels |-> 0] }

Next ==
  \/ Tick(ClockMod)
  \/ Connect
  \/ HandleLoop(Skew, AllSamples)
  \/ \E pkt \in UsbPackets : LocalReceive(pkt)
  \/ \E packet \in PlugPackets : PlugReceive(packet)
  \/ \E packet \in SocketPackets : SocketReceive(packet)
  \/ \E json \in JsonInputs : ImportConfiguration(json)

Spec == Init /\ [][Next]_vars

\* The two timers: the clock, the poll loop with the analog inputs at rest,
\* and the system reset, which sets the timers' references.
NextTimer ==
  \/ Tick(ClockMod)
  \/ HandleLoop(Skew, NoSamples)
  \/ LocalReceive(Message("SystemReset", 0, 0))

SpecTimer == Init /\ [][NextTimer]_vars

\* The emission of control changes in the first EmitHorizon units of time:
\* the poll loop with every sample and no time passing inside handleLoop,
\* and the control changes from the USB host and from the plug.
FlushMessages ==
  { Message("ControlChange", c, 0) : c \in {AllSoundOff, AllNotesOff} }

NextEmit ==
  \/ Tick(EmitHorizon)
  \/ Connect
  \/ HandleLoop({0}, AllSamples)
  \/ \E pkt \in FlushMessages : LocalReceive(pkt)
  \/ LocalReceive(Message("ControlChange", OtherController, 0))
  \/ PlugReceive(LinkPacket("MIDI", 0, Message("ControlChange", AllNotesOff, 0)))

SpecEmit == Init /\ [][NextEmit]_vars

\* The routing of packets between the USB host, the plug and the socket:
\* a message that flushes and a note that lights an LED, whoever gets them.
RouteMessages ==
  { Message("ControlChange", AllNotesOff, 0), Message("NoteOn", BaseNote, 64) }

NextRoute ==
  \/ Connect
  \/ \E m \in RouteMessages, p \in Ports : LocalReceive(setPort(m, p))
  \/ \E m \in RouteMessages : PlugReceive(LinkPacket("MIDI", 0, m))
  \/ PlugReceive(LinkPacket("Other", 0, NoPacket))
  \/ \E m \in RouteMessages, a \in Addresses :
       SocketReceive(LinkPacket("MIDI", a, m))
  \/ \E a \in Addresses : SocketReceive(LinkPacket("Other", a, NoPacket))

SpecRoute == Init /\ [][NextRoute]_vars

\* The system reset of a device that has sampled, emitted and lit its LEDs:
\* the poll loop with every sample in the first EmitHorizon units of time,
\* a note that lights an LED, a flush, and the reset from the USB host and
\* the plug.
NextReset ==
  \/ Tick(EmitHorizon)
  \/ HandleLoop({0}, AllSamples)
  \/ LocalReceive(Message("NoteOn", BaseNote, 64))
  \/ LocalReceive(Message("ControlChange", AllNotesOff, 0))
  \/ LocalReceive(Message("SystemReset", 0, 0))
  \/ PlugReceive(LinkPacket("MIDI", 0, Message("SystemReset", 0, 0)))

SpecReset == Init /\ [][NextReset]_vars

\* The configuration of the channel: the import of a configuration, and a
\* flush, whose control changes carry the channel.
NextConfig ==
  \/ \E json \in JsonInputs : ImportConfiguration(json)
  \/ LocalReceive(Message("ControlChange", AllNotesOff, 0))

SpecConfig == Init /\ [][NextConfig]_vars

\* The notes: every note message from the USB host, a note off from the
\* plug and the system reset, while the poll loop samples one potentiometer
\* and emits in the first EmitHorizon units of time.
NextNotes ==
  \/ Tick(EmitHorizon)
  \/ HandleLoop({0}, OneSample)
  \/ \E m \in NoteMessages : LocalReceive(m)
  \/ PlugReceive(LinkPacket("MIDI", 0, Message("NoteOff", BaseNote + 1, 64)))
  \/ LocalReceive(Message("SystemReset", 0, 0))

SpecNotes == Init /\ [][NextNotes]_vars

\* The poll loop that runs for ever: loop() is called again and again by the
\* Arduino core, and micros() keeps counting, around the wrap of the clock.
\* Weak fairness of the two says just that: the clock does not stop, and
\* loop() is not held off for ever.
NextLive ==
  \/ Tick(ClockMod)
  \/ HandleLoop({0}, AllSamples)

SpecLive ==
  /\ Init
  /\ [][NextLive]_vars
  /\ WF_vars(Tick(ClockMod))
  /\ WF_vars(HandleLoop({0}, AllSamples))

----------------------------------------------------------------------------
(* Properties *)

\* The number of control changes for channel i that `s` sends to `to`.
Sends(s, to, i) ==
  Cardinality({ k \in DOMAIN s :
                  /\ s[k].to = to
                  /\ s[k].pkt.type = "ControlChange"
                  /\ s[k].pkt.d1 = GeneralPurpose1 + i })

\* The packets sent to `to`.
SentTo(s, to) == { k \in DOMAIN s : s[k].to = to }

\* The last step dispatched a control change that flushes.
Flushed ==
  /\ ev.dispatched = 1
  /\ ev.inp.midi.type = "ControlChange"
  /\ ev.inp.midi.d1 \in {AllSoundOff, AllNotesOff}

\* C1: an emission pass of handleLoop (not forced) sends exactly one control
\* change for every channel whose sampler is at another step than the cached
\* one, and none for the other channels; it sends nothing else.
C1_EmissionPass ==
  [][ (ev'.op = "loop" /\ ev'.loop.eFired) =>
        /\ \A i \in Channels :
             /\ Sends(sent', "usb", i) = (IF potis'[i] # _steps[i] THEN 1 ELSE 0)
             /\ Sends(sent', "plug", i) = (IF potis'[i] # _steps[i] THEN 1 ELSE 0)
        /\ Len(sent') = 2 * Cardinality({ i \in Channels : potis'[i] # _steps[i] })
    ]_vars

\* An emission pass that sent for channel 0 and not for channel 1.
C1_Witness ==
  /\ ev.op = "loop" /\ ev.loop.eFired
  /\ Sends(sent, "usb", 0) = 1
  /\ Sends(sent, "usb", 1) = 0

\* C2: a dispatched control change "all sound off" or "all notes off" sends
\* exactly one control change for each of the n_potis channels, whatever the
\* cached steps are.
C2_ForcedFlush ==
  Flushed =>
    /\ \A i \in Channels :
         Sends(sent, "usb", i) = 1 /\ Sends(sent, "plug", i) = 1
    /\ Len(sent) = 2 * n_potis

\* A flush before the sampling task has ever fired: every sampler is at the
\* step that is cached.
C2_Witness ==
  /\ Flushed
  /\ lastMeasure = Never
  /\ potis = _steps
  /\ Len(sent) = 2 * n_potis

\* C7: what the Device sends, in an emission pass or in a flush, goes to the
\* USB host and to the plug, packet by packet, and never to the socket,
\* whether the USB host is connected or not.
C7_BothTransports ==
  (ev.op = "loop" \/ ev.dispatched = 1) =>
    /\ SentTo(sent, "socket") = {}
    /\ Len(sent) % 2 = 0
    /\ \A k \in DOMAIN sent :
         k % 2 = 1 =>
           /\ sent[k].to = "usb"
           /\ sent[k + 1].to = "plug"
           /\ sent[k + 1].pkt = sent[k].pkt

\* An emission pass that sent while the USB host was not connected.
C7_Witness ==
  /\ ev.op = "loop" /\ ev.loop.eFired
  /\ ~ev.conn
  /\ SentTo(sent, "usb") # {}
  /\ SentTo(sent, "plug") # {}

\* C3: a packet from the USB host with port 0 is dispatched to the Device
\* once, and nothing is sent to the socket.
C3_LocalForMe ==
  (ev.op = "local" /\ ev.inp.address = 0) =>
    /\ ev.dispatched = 1
    /\ SentTo(sent, "socket") = {}

\* A flush from the USB host on port 0: dispatched, answered on the USB
\* port and the plug.
C3_Witness ==
  /\ ev.op = "local" /\ ev.inp.address = 0
  /\ ev.dispatched = 1
  /\ MIDI_midi = ev.inp.midi
  /\ SentTo(sent, "usb") # {}

\* C4: a packet from the USB host with port a > 0 is sent to the socket, once,
\* with port a - 1, and is not dispatched; no packet goes to the socket with
\* a port that wrapped below 0.
C4_LocalForward ==
  /\ (ev.op = "local" /\ ev.inp.address > 0) =>
       /\ sent = << [to |-> "socket",
                     pkt |-> [ev.inp.midi EXCEPT !.port = ev.inp.address - 1]] >>
       /\ ev.dispatched = 0
  /\ ev.op = "local" =>
       \A k \in SentTo(sent, "socket") : sent[k].pkt.port < ev.inp.address

\* A packet with port 1 that went to the socket with port 0.
C4_Witness ==
  /\ ev.op = "local" /\ ev.inp.address = 1
  /\ Len(sent) = 1
  /\ sent[1].to = "socket"
  /\ sent[1].pkt.port = 0

\* The fields of the Device, of MIDI and of Link.
state == << potis, _steps, _measure_usec, _events_usec, _midi, channel, led,
            onboard, MIDI_midi, Link_midi >>

\* C5: a MIDI packet from the socket with an address a other than the
\* reserved one is sent to the USB host with port a + 1 when the host is
\* connected; when it is not, nothing is sent and no field changes, and
\* the host's connecting later sends nothing.
C5_SocketForward ==
  [][ /\ (/\ ev'.op = "socket"
          /\ ev'.inp.ltype = "MIDI"
          /\ ev'.inp.address # BroadcastAddress) =>
           IF connected
           THEN sent' = << [to |-> "usb",
                            pkt |-> [ev'.inp.midi EXCEPT
                                       !.port = ev'.inp.address + 1]] >>
           ELSE sent' = << >> /\ state' = state
      /\ ev'.op = "connect" => (sent' = << >> /\ state' = state)
    ]_vars

\* A packet from the socket dropped while the host was not connected, after
\* an earlier one had been forwarded.
C5_Witness ==
  /\ ev.op = "socket" /\ ev.inp.ltype = "MIDI"
  /\ ev.inp.address # BroadcastAddress
  /\ ~ev.conn
  /\ sent = << >>
  /\ Link_midi.port = BroadcastAddress

\* C6: a packet from the socket with the reserved address is sent nowhere,
\* whether the USB host is connected or not.
C6_SocketReserved ==
  (ev.op = "socket" /\ ev.inp.address = BroadcastAddress) => sent = << >>

\* A MIDI packet with the reserved address, the host connected.
C6_Witness ==
  /\ ev.op = "socket" /\ ev.inp.ltype = "MIDI"
  /\ ev.inp.address = BroadcastAddress
  /\ ev.conn
  /\ sent = << >>

\* The clock value `ref` was read in the step: between now and now'.
ReadInStep(ref) == Passed(now, ref) + Passed(ref, now') = Passed(now, now')

\* C8 as stated: in every handleLoop a task whose reference is the time
\* recorded at its last fire fires exactly when the time since then is at
\* least its period.
C8_FiresAtPeriod ==
  [][ ev'.op = "loop" =>
        /\ lastMeasure = sinceMeasure =>
             (ev'.loop.mFired <=> sinceMeasure >= MeasurePeriod)
        /\ lastEvents = sinceEvents =>
             (ev'.loop.eFired <=>
                sinceEvents + ev'.loop.eSkew >= EventsPeriod)
    ]_vars

\* C8, amended: in every handleLoop a task fires exactly when the time since
\* its reference is more than its period; at exactly one period it does not.
C8_FiresPastPeriod ==
  [][ ev'.op = "loop" =>
        /\ ev'.loop.mFired <=> sinceMeasure > MeasurePeriod
        /\ ev'.loop.eFired <=> sinceEvents + ev'.loop.eSkew > EventsPeriod
    ]_vars

\* A handleLoop that found exactly one period on both timers: none fired.
C8_Witness ==
  /\ ev.op = "loop"
  /\ ~ev.loop.mFired /\ ~ev.loop.eFired
  /\ sinceMeasure - ev.loop.eSkew = MeasurePeriod
  /\ sinceEvents = EventsPeriod

\* C9 as stated: a task that fires records a time read in this iteration as
\* its reference, and it fires only when a full period has passed since it
\* fired last.
C9_OncePerPeriod ==
  [][ ev'.op = "loop" =>
        /\ ev'.loop.mFired =>
             /\ lastMeasure >= MeasurePeriod
             /\ ReadInStep(_measure_usec')
        /\ ev'.loop.eFired =>
             /\ lastEvents + ev'.loop.eSkew >= EventsPeriod
             /\ ReadInStep(_events_usec')
    ]_vars

\* C9, amended: as stated, but the sampling task also fires less than a
\* period after its last fire when its reference is the zero that a reset
\* has set.
C9_NoCatchUp ==
  [][ ev'.op = "loop" =>
        /\ ev'.loop.mFired =>
             /\ lastMeasure >= MeasurePeriod \/ _measure_usec = 0
             /\ ReadInStep(_measure_usec')
        /\ ev'.loop.eFired =>
             /\ lastEvents + ev'.loop.eSkew >= EventsPeriod
             /\ ReadInStep(_events_usec')
    ]_vars

\* Both tasks overdue by more than one period: each fired, and its reference
\* is the time of this iteration, so that it is not due again.
C9_Witness ==
  /\ ev.op = "loop"
  /\ ev.loop.mFired /\ ev.loop.mLate
  /\ ev.loop.eFired /\ ev.loop.eLate
  /\ ~Due(now, _measure_usec, MeasurePeriod)
  /\ ~Due(now, _events_usec, EventsPeriod)

\* C10: when micros() has wrapped below the reference of a task, the task
\* fires exactly when the time that has passed since the reference was set
\* is more than the period.
C10_WrapSafe ==
  [][ ev'.op = "loop" =>
        /\ now < _measure_usec =>
             (ev'.loop.mFired <=> sinceMeasure > MeasurePeriod)
        /\ (now + ev'.loop.eSkew) % ClockMod < _events_usec =>
             (ev'.loop.eFired <=> sinceEvents + ev'.loop.eSkew > EventsPeriod)
    ]_vars

\* Both tasks fired with micros() below their references.
C10_Witness ==
  /\ ev.op = "loop"
  /\ ev.loop.mFired /\ ev.loop.mWrapped
  /\ ev.loop.eFired /\ ev.loop.eWrapped

\* The last step dispatched a system reset.
WasReset ==
  /\ ev.dispatched = 1
  /\ ev.inp.midi.type = "SystemReset"

\* C11 as it is stated: a system reset sets every cached step to 0, clears
\* the references of both timers, clears the Device's packet buffer and
\* turns the onboard LED off.
C11_ClearsBothTimers ==
  WasReset =>
    /\ \A i \in Channels : _steps[i] = 0
    /\ _measure_usec = 0
    /\ _events_usec = 0
    /\ _midi = NoPacket
    /\ onboard = FALSE

\* C11, amended: a system reset sets every cached step to 0, the reference
\* of the sampling timer to 0 and the reference of the emission timer to the
\* value of the clock, clears the Device's packet buffer and turns the
\* onboard LED off.
C11_Reset ==
  WasReset =>
    /\ \A i \in Channels : _steps[i] = 0
    /\ _measure_usec = 0
    /\ _events_usec = now
    /\ _midi = NoPacket
    /\ onboard = FALSE

\* A reset after both tasks have fired, at a clock value that is not 0.
C11_Witness ==
  /\ WasReset
  /\ lastMeasure < Never
  /\ lastEvents < Never
  /\ now > 0
  /\ _events_usec = now

\* C12: an import with a channel c sets config.channel to c - 1 when c is in
\* 1..16, to 0 when c is below and to 15 when c is above; an import without
\* a channel leaves config.channel as it is; config.channel is in 0..15
\* after every step, and so is the channel of every control change sent.
C12_ImportChannel ==
  [][ /\ channel' \in 0 .. 15
      /\ \A k \in DOMAIN sent' : sent'[k].pkt.channel \in 0 .. 15
      /\ ev'.op = "import" =>
            IF ev'.inp.json_midi /\ ev'.inp.hasChannel
            THEN LET c == ev'.inp.channel
                 IN  /\ c \in 1 .. 16 => channel' = c - 1
                     /\ c < 1 => channel' = 0
                     /\ c > 16 => channel' = 15
            ELSE channel' = channel
    ]_vars

\* An import of channel 20 has set config.channel to 15.
C12_Witness ==
  /\ ev.op = "import"
  /\ ev.inp.hasChannel
  /\ ev.inp.channel = 20
  /\ channel = 15

\* The step dispatches a note: a note on or a note off.
NoteDispatched ==
  /\ ev'.dispatched = 1
  /\ ev'.inp.midi.type \in {"NoteOn", "NoteOff"}

\* C13: a dispatched note on or note off whose note is below BaseNote or at
\* or above BaseNote + n_potis changes no LED, not the onboard LED, no cached
\* step, no sampler, no timer reference, not the Device's packet and not the
\* channel, and sends nothing.
C13_OutOfRange ==
  [][ (NoteDispatched /\ ev'.inp.midi.d1 \notin LedNotes) =>
        /\ UNCHANGED << led, onboard, _steps, potis, _measure_usec,
                        _events_usec, _midi, channel >>
        /\ sent' = << >>
    ]_vars

\* A note on above the range, with a velocity, has left LED 0 lit and LED 1
\* dark, after the emission task has cached a step.
C13_Witness ==
  /\ ev.dispatched = 1
  /\ ev.inp.midi.type = "NoteOn"
  /\ ev.inp.midi.d1 = BaseNote + n_potis
  /\ ev.inp.midi.d2 > 0
  /\ led[0] > 0 /\ led[1] = 0
  /\ _steps[0] > 0

\* C14: a dispatched note BaseNote + i, i < n_potis: a note on with a
\* velocity above 0 turns LED i and the onboard LED on; a note on with
\* velocity 0, and a note off with any velocity, turns LED i and the onboard
\* LED off; the other LEDs stay as they are.
C14_InRange ==
  [][ (NoteDispatched /\ ev'.inp.midi.d1 \in LedNotes) =>
        LET i == ev'.inp.midi.d1 - BaseNote
        IN  /\ IF ev'.inp.midi.type = "NoteOn" /\ ev'.inp.midi.d2 > 0
               THEN led'[i] > 0 /\ onboard'
               ELSE led'[i] = 0 /\ ~onboard'
            /\ \A j \in Channels \ {i} : led'[j] = led[j]
    ]_vars

\* A note off with a velocity has turned LED 0 off, and LED 1 is still lit.
C14_Witness ==
  /\ ev.dispatched = 1
  /\ ev.inp.midi.type = "NoteOff"
  /\ ev.inp.midi.d1 = BaseNote
  /\ ev.inp.midi.d2 > 0
  /\ led[0] = 0 /\ led[1] > 0
  /\ ~onboard

\* C19: the onboard LED is on exactly when the last dispatched note for an
\* LED, since the last reset, was a note on with a velocity above 0; it is
\* off when there was no such note.  It does not say whether an LED is lit.
C19_StatusFollowsLastNote ==
  onboard <=> lastNote = "on"

\* A note off for LED 1 has turned the onboard LED off while LED 0 is lit
\* with the velocity of its note on.
C19_Witness ==
  /\ ev.dispatched = 1
  /\ ev.inp.midi.type = "NoteOff"
  /\ ev.inp.midi.d1 = BaseNote + 1
  /\ lastNote = "off"
  /\ ~onboard
  /\ led[0] > MaxStep

\* The step sends a control change for channel i that carries `value`.
SendsValue(i, value) ==
  \E k \in DOMAIN sent' :
    /\ sent'[k].pkt.type = "ControlChange"
    /\ sent'[k].pkt.d1 = GeneralPurpose1 + i
    /\ sent'[k].pkt.d2 = value

\* C15 as it is stated: the cached step of a channel changes only in a step
\* that sends a control change for that channel, and to the value that the
\* control change carries.
C15_OnlyWithMessage ==
  [][ \A i \in Channels :
        _steps'[i] # _steps[i] => SendsValue(i, _steps'[i])
    ]_vars

\* C15, amended: the cached step of a channel changes only in a step that
\* sends a control change for that channel, and to the value that the
\* control change carries, or in a reset, which sets it to 0 and sends
\* nothing.
C15_OnlyWithMessageOrReset ==
  [][ \A i \in Channels :
        _steps'[i] # _steps[i] =>
          \/ SendsValue(i, _steps'[i])
          \/ /\ ev'.dispatched = 1
             /\ ev'.inp.midi.type = "SystemReset"
             /\ _steps'[i] = 0
             /\ sent' = << >>
    ]_vars

\* An emission pass has sent the new step of channel 0, and cached it.
C15_Witness ==
  /\ ev.op = "loop" /\ ev.loop.eFired
  /\ Sends(sent, "plug", 0) = 1
  /\ sent[1].pkt.d2 = MaxStep
  /\ _steps[0] = MaxStep
  /\ _steps[1] = 0

\* C16: a packet from the plug of type MIDI is dispatched to the Device,
\* once, and the Device does with it what it does with the same packet from
\* the USB host on port 0; the packet itself is sent nowhere, and nothing
\* goes to the socket.  A packet from the plug of another type is not
\* dispatched: the Device stays as it is and nothing is sent.
C16_PlugDispatch ==
  [][ ev'.op = "plug" =>
        /\ SentTo(sent', "socket") = {}
        /\ \A k \in DOMAIN sent' : sent'[k].pkt # ev'.inp.midi
        /\ IF ev'.inp.ltype = "MIDI"
           THEN LET d == dispatch(DeviceState, setPort(ev'.inp.midi, 0), now)
                IN  /\ ev'.dispatched = 1
                    /\ << _steps', potis', led', onboard', _midi' >>
                         = << d.steps, d.potis, d.led, d.onboard, d.midi >>
                    /\ sent' = d.out
           ELSE /\ ev'.dispatched = 0
                /\ UNCHANGED << _steps, potis, led, onboard, _midi >>
                /\ sent' = << >>
    ]_vars

\* A note on from the plug has lit LED 0 and the onboard LED, and nothing
\* was sent.
C16_Witness ==
  /\ ev.op = "plug"
  /\ ev.inp.ltype = "MIDI"
  /\ ev.inp.midi.type = "NoteOn"
  /\ ev.dispatched = 1
  /\ led[0] > 0 /\ onboard
  /\ sent = << >>

\* C17: a reset leaves the reference of the sampling timer at 0 and the
\* reference of the emission timer at the value of the clock; the poll
\* iteration that follows a reset runs the sampling task, whatever the value
\* of the clock is; and the emission task fires only when at least its
\* period has passed since its reference was set, by the reset or by the
\* task.
C17_ImmediateSample ==
  [][ /\ (ev'.dispatched = 1 /\ ev'.inp.midi.type = "SystemReset") =>
           _measure_usec' = 0 /\ _events_usec' = now'
      /\ (WasReset /\ ev'.op = "loop") => ev'.loop.mFired
      /\ (ev'.op = "loop" /\ ev'.loop.eFired) =>
           sinceEvents + ev'.loop.eSkew >= EventsPeriod
    ]_vars

\* C18: after an emission pass, of handleLoop or forced by a flush, every
\* channel the pass has sent a control change for has the step of its
\* sampler cached; and an emission pass of handleLoop that follows a flush,
\* with no sampling between the two, sends nothing.
C18_CachedAfterPass ==
  [][ /\ ((ev'.op = "loop" /\ ev'.loop.eFired) \/ Flushed') =>
           \A i \in Channels :
             Sends(sent', "usb", i) > 0 => _steps'[i] = potis'[i]
      /\ (Flushed /\ ev'.op = "loop" /\ ev'.loop.eFired /\ ~ev'.loop.mFired) =>
           sent' = << >>
    ]_vars

\* A flush has sent a step above 0 for channel 0, at a time when the
\* emission task is due and the sampling task is not: the next poll runs an
\* emission pass without sampling.
C18_Witness ==
  /\ Flushed
  /\ Sends(sent, "usb", 0) = 1
  /\ _steps[0] > 0
  /\ _steps = potis
  /\ Due(now, _events_usec, EventsPeriod)
  /\ ~Due(now, _measure_usec, MeasurePeriod)

\* C20: when the poll loop keeps running and the clock keeps counting, and
\* from some time on the sampler of channel i stays at one step, then
\* emission passes keep running and from some time on the cached step of
\* channel i is that step: the step has been sent.
C20_EventuallyEmitted ==
  /\ []<>(ev.op = "loop" /\ ev.loop.eFired)
  /\ \A i \in Channels, v \in Steps :
       <>[](potis[i] = v) => <>[](_steps[i] = v)

\* An emission pass, with no sampling in the same poll, has sent the step
\* that channel 1 was sampled at before, and cached it.
C20_Witness ==
  /\ ev.op = "loop" /\ ev.loop.eFired /\ ~ev.loop.mFired
  /\ Sends(sent, "usb", 1) = 1
  /\ potis[1] = MaxStep
  /\ _steps[1] = potis[1]

====
